---- MODULE Spec2Model ----
(***************************************************************************)
(* Session engine and progress store of devops-interview-prep.             *)
(*                                                                         *)
(* One CLI process imports the modules (which constructs the global        *)
(* ProgressTracker), runs one command (practice / interview /              *)
(* review-mistakes) that drives an InterviewSession over a list of         *)
(* questions, and exits.  The progress file and its directory outlive the  *)
(* process.                                                                *)
(***************************************************************************)
EXTENDS Integers, Sequences, FiniteSets, TLC

\* ---------------------------------------------------------------- bounds
MaxRuns == 2      \* process runs
MaxQuestions == 2 \* questions handed to one session
MaxClock == 1     \* wall-clock readings 0..MaxClock
MaxHistory == 3   \* records held by the store when driven directly
UsecPerSec == 2   \* clock resolution: sub-second units per second
MaxTopics == 6    \* topics in a history built topic by topic
MaxFlags == 11    \* length of a history enumerated by its correct flags
MaxShort == 3     \* length of a history enumerated by question id and flag
MaxCount == 5     \* largest count handed to get_questions
MaxTotal == 10    \* questions answered in a session that is summarised
MaxWait == 3      \* clock readings while a summary is on show
MaxSummaries == 3 \* show_summary calls on one session
MaxTracked == 2   \* results held by a tracking session that is summarised

\* ------------------------------------------------------------- constants
\* new_correct_position = None (never equal to a selection 1..n)
NonePosition == 0

NoText == "<none>"

\* core/config.py
MIN_ATTEMPTS_FOR_WEAK_AREAS == 3
MAX_WEAK_AREAS_SHOWN == 5
EXCELLENT_THRESHOLD == 90
GOOD_THRESHOLD == 75
FAIR_THRESHOLD == 60

\* self.results[-10:] in get_overall_stats
RecentWindow == 10

\* ---------------------------------------------------------------- catalog
\* The loader copies id/topic/difficulty/options/correct_answer verbatim and
\* validates nothing, so the bank can hold questions whose correct_answer is
\* outside 1..len(options) (q3, q4).  q2 has two options with equal text.
Catalog ==
  << [id |-> "q1", topic |-> "linux", difficulty |-> "easy",
      options |-> <<"a", "b">>, correct_answer |-> 1],
     [id |-> "q2", topic |-> "git", difficulty |-> "hard",
      options |-> <<"x", "y", "x">>, correct_answer |-> 3],
     [id |-> "q3", topic |-> "linux", difficulty |-> "hard",
      options |-> <<"a", "b">>, correct_answer |-> 3],
     [id |-> "q4", topic |-> "git", difficulty |-> "easy",
      options |-> <<"a", "b">>, correct_answer |-> 0] >>

Range(s) == {s[k] : k \in DOMAIN s}

\* the keys load_questions reads with q_data[...]; a missing one is a KeyError
RequiredKeys == {"id", "topic", "difficulty", "options", "correct_answer"}

\* Question(...) built from one catalog entry; company_tags defaults to []
Question(q_data) ==
  [id |-> q_data.id, topic |-> q_data.topic, difficulty |-> q_data.difficulty,
   options |-> q_data.options, correct_answer |-> q_data.correct_answer,
   company_tags |-> IF "company_tags" \in DOMAIN q_data
                      THEN q_data.company_tags ELSE <<>>]

\* a catalog file holding {"questions": entries}
CatalogFile(entries) ==
  [exists |-> TRUE, json_ok |-> TRUE, has_questions |-> TRUE, entries |-> entries]

\* InterviewQuestionBank.load_questions: the questions held afterwards and
\* the message echoed.  self.questions is filled entry by entry, so an
\* exception raised by an entry leaves the entries before it in the bank.
load_questions(f) ==
  IF ~f.exists THEN [questions |-> <<>>, message |-> "not_found"]
  ELSE IF ~f.json_ok THEN [questions |-> <<>>, message |-> "error"]
  ELSE IF ~f.has_questions THEN [questions |-> <<>>, message |-> "loaded"]
  ELSE LET bad == {k \in 1..Len(f.entries) :
                     ~(RequiredKeys \subseteq DOMAIN f.entries[k])}
           n == IF bad = {} THEN Len(f.entries)
                ELSE (CHOOSE k \in bad : \A j \in bad : k <= j) - 1
       IN [questions |-> [k \in 1..n |-> Question(f.entries[k])],
           message |-> IF bad = {} THEN "loaded" ELSE "error"]

\* ------------------------------------------------------------- datetime
\* datetime.now() at clock reading n
Timestamp(n) == [sec |-> n \div UsecPerSec, usec |-> n % UsecPerSec]

\* a plausible slip: the timestamp is written to the second only
IsoformatSeconds(t) == <<t.sec>>

\* datetime.isoformat(): the fraction is omitted when microsecond = 0
Isoformat(t) == IF t.usec = 0 THEN <<t.sec>> ELSE <<t.sec, t.usec>>

\* datetime.fromisoformat(): ok = FALSE models ValueError
Fromisoformat(s) ==
  IF Len(s) = 1 THEN [ok |-> TRUE, val |-> [sec |-> s[1], usec |-> 0]]
  ELSE IF Len(s) = 2 THEN [ok |-> TRUE, val |-> [sec |-> s[1], usec |-> s[2]]]
  ELSE [ok |-> FALSE, val |-> [sec |-> 0, usec |-> 0]]

\* ------------------------------------------------------- progress tracker
\* json.dump([...]) in save_result: one object per in-memory record
EncodeRecord(r) ==
  [question_id |-> r.question_id, topic |-> r.topic,
   difficulty |-> r.difficulty, correct |-> r.correct,
   timestamp |-> Isoformat(r.timestamp), time_taken |-> r.time_taken]

DumpResults(rs) == [k \in 1..Len(rs) |-> EncodeRecord(rs[k])]

\* QuestionResult(...) built in _load_results from one JSON object
DecodeRecord(j) ==
  [question_id |-> j.question_id, topic |-> j.topic,
   difficulty |-> j.difficulty, correct |-> j.correct,
   timestamp |-> Fromisoformat(j.timestamp).val, time_taken |-> j.time_taken]

\* ProgressTracker._load_results: [] when the file is missing, when
\* json.load fails, or when building any record raises
LoadResults(f) ==
  IF ~f.exists THEN <<>>
  ELSE IF ~f.parsable THEN <<>>
  ELSE IF \E k \in 1..Len(f.data) : ~Fromisoformat(f.data[k].timestamp).ok
       THEN <<>>
  ELSE [k \in 1..Len(f.data) |-> DecodeRecord(f.data[k])]

\* the three ways the try block of save_result can end
SaveOutcomes == {"ok", "open_failed", "write_failed"}

\* a plausible slip: the new record alone is appended to the stored document
WriteFileDelta(f, rs, outcome) ==
  IF outcome = "ok"
    THEN [exists |-> TRUE, parsable |-> TRUE,
          data |-> Append(IF f.exists /\ f.parsable THEN f.data ELSE <<>>,
                          EncodeRecord(rs[Len(rs)]))]
  ELSE IF outcome = "write_failed" THEN [exists |-> TRUE, parsable |-> FALSE, data |-> <<>>]
  ELSE f

\* with open(results_file, 'w') as f: json.dump(...)
\*   open_failed : open() raises, the file is untouched
\*   write_failed: open() has truncated the file, the dump or the close
\*                 raises, the file is left empty or cut short
WriteFile(f, rs, outcome) ==
  IF outcome = "ok" THEN [exists |-> TRUE, parsable |-> TRUE, data |-> DumpResults(rs)]
  ELSE IF outcome = "write_failed" THEN [exists |-> TRUE, parsable |-> FALSE, data |-> <<>>]
  ELSE f

\* open(results_file, 'w') on its own: the file exists and is empty
Truncate(f) == [exists |-> TRUE, parsable |-> FALSE, data |-> <<>>]

\* the buffered dump reaching the file when it is closed: the text goes to
\* offset 0 of whatever the file holds by then. Text that is longer than the
\* content replaces it; shorter text leaves the rest of the content behind
\* it, which json.load rejects. Documents of as many records can differ in
\* length either way (true/false, a timestamp with or without fraction).
WriteAtStart(f, rs) ==
  LET d == DumpResults(rs)
      clean == [exists |-> TRUE, parsable |-> TRUE, data |-> d]
      mixed == [exists |-> TRUE, parsable |-> FALSE,
                data |-> d \o SubSeq(f.data, Len(d) + 1, Len(f.data))]
  IN IF Len(d) > Len(f.data) \/ d = f.data THEN {clean}
     ELSE IF Len(d) = Len(f.data) THEN {clean, [mixed EXCEPT !.data = d]}
     ELSE {mixed}

\* a plausible slip: the append happens only once the write has succeeded
SaveResultMemoryAfterWrite(rs, result, outcome) ==
  IF outcome = "ok" THEN Append(rs, result) ELSE rs

\* self.results.append(result) precedes the try block
SaveResultMemory(rs, result, outcome) == Append(rs, result)

\* ---------------------------------------------------------------- session
\* original_options[original_correct_answer - 1] with Python indexing:
\* negative indices count from the end, anything else is IndexError
PyIndex(s, k) ==
  IF k >= 0 /\ k < Len(s) THEN [ok |-> TRUE, val |-> s[k + 1]]
  ELSE IF k < 0 /\ k >= -Len(s) THEN [ok |-> TRUE, val |-> s[Len(s) + k + 1]]
  ELSE [ok |-> FALSE, val |-> NoText]

ShufflePermutations(n) ==
  {p \in [1..n -> 1..n] : \A j, k \in 1..n : j # k => p[j] # p[k]}

\* a plausible slip: the 0-based index compared with the 1-based answer
OptionsWithCorrectnessZeroBased(q) ==
  [k \in 1..Len(q.options) |->
     [option |-> q.options[k], is_correct |-> (k - 1 = q.correct_answer)]]

\* options_with_correctness: (option, i+1 == original_correct_answer)
OptionsWithCorrectness(q) ==
  [k \in 1..Len(q.options) |->
     [option |-> q.options[k], is_correct |-> (k = q.correct_answer)]]

\* py_random.shuffle: the list rearranged by permutation p
Shuffle(pairs, p) == [k \in 1..Len(pairs) |-> pairs[p[k]]]

\* the loop over the shuffled pairs: the last flagged position wins
RECURSIVE ScanCorrect(_, _, _)
ScanCorrect(pairs, k, pos) ==
  IF k > Len(pairs) THEN pos
  ELSE ScanCorrect(pairs, k + 1, IF pairs[k].is_correct THEN k ELSE pos)

NewCorrectPosition(pairs) == ScanCorrect(pairs, 1, NonePosition)

ShuffledOptions(pairs) == [k \in 1..Len(pairs) |-> pairs[k].option]

\* correct = answer == new_correct_position
IsCorrect(a, pos) == a = pos

\* topic_performance[topic] = {'correct': 0, 'total': 0} on first touch
Touch(tp, t) ==
  IF t \in DOMAIN tp THEN tp
  ELSE [x \in DOMAIN tp \cup {t} |->
          IF x = t THEN [correct |-> 0, total |-> 0] ELSE tp[x]]

\* a plausible slip: the topic's correct counter bumped outside the if
UpdateTopicAlwaysCorrect(tp, t, correct) ==
  LET tp1 == Touch(tp, t)
      tp2 == [tp1 EXCEPT ![t].total = @ + 1]
  IN [tp2 EXCEPT ![t].correct = @ + 1]

\* the topic bookkeeping of one judged answer
UpdateTopic(tp, t, correct) ==
  LET tp1 == Touch(tp, t)
      tp2 == [tp1 EXCEPT ![t].total = @ + 1]
  IN IF correct THEN [tp2 EXCEPT ![t].correct = @ + 1] ELSE tp2

EmptyDict == [x \in {} |-> 0]

Min(a, b) == IF a <= b THEN a ELSE b
Max(a, b) == IF a >= b THEN a ELSE b

\* a float quotient correct / total, kept exact as numerator and denominator
Rate(c, n) == [num |-> c, den |-> n]

\* the value 0 the code uses when there is nothing to divide by
ZeroRate == [num |-> 0, den |-> 1]

RateLess(a, b) == a.num * b.den < b.num * a.den
RateEqual(a, b) == a.num * b.den = b.num * a.den

\* ----------------------------------------------------------- formatting
\* score / total * 100, 0 when total is 0
Percentage(s, t) == IF t > 0 THEN Rate(s * 100, t) ELSE ZeroRate

\* percentage >= threshold
AtLeast(p, threshold) == p.num >= threshold * p.den

\* a plausible slip: the thresholds compared with > instead of >=
format_assessmentStrict(p) ==
  IF ~AtLeast(p, EXCELLENT_THRESHOLD) \/ p.num = EXCELLENT_THRESHOLD * p.den
    THEN (IF ~AtLeast(p, GOOD_THRESHOLD) \/ p.num = GOOD_THRESHOLD * p.den
            THEN (IF ~AtLeast(p, FAIR_THRESHOLD) \/ p.num = FAIR_THRESHOLD * p.den
                    THEN "needs_practice" ELSE "fair")
            ELSE "good")
    ELSE "excellent"

\* utils.formatting.format_assessment
format_assessment(p) ==
  IF AtLeast(p, EXCELLENT_THRESHOLD) THEN "excellent"
  ELSE IF AtLeast(p, GOOD_THRESHOLD) THEN "good"
  ELSE IF AtLeast(p, FAIR_THRESHOLD) THEN "fair"
  ELSE "needs_practice"

\* f"{x:.1f}" and f"{x:.0f}": x * scale rounded to an integer, halves to even
Rounded(p, scale) ==
  LET n == p.num * scale
      q == n \div p.den
      r == n % p.den
  IN IF 2 * r < p.den THEN q
     ELSE IF 2 * r > p.den THEN q + 1
     ELSE IF q % 2 = 0 THEN q ELSE q + 1

\* utils.formatting.format_duration: minutes and remaining seconds
format_duration(seconds) == <<seconds \div 60, seconds % 60>>

\* (datetime.now() - start_time).seconds: whole seconds within the day
TimedeltaSeconds(clock, start) == ((clock - start) \div UsecPerSec) % 86400

\* what InterviewSession.show_summary echoes; the topic lines come sorted by
\* topic, so they are determined by the dict's content
show_summary(s, t, tp, start, clock) ==
  [score |-> s, total |-> t,
   percentage |-> Rounded(Percentage(s, t), 10),
   duration |-> format_duration(TimedeltaSeconds(clock, start)),
   topics |-> [x \in DOMAIN tp |->
                 [correct |-> tp[x].correct, total |-> tp[x].total,
                  pct |-> Rounded(Percentage(tp[x].correct, tp[x].total), 1)]],
   assessment |-> format_assessment(Percentage(s, t))]

\* ------------------------------------------------- selecting questions
\* str.lower() on the strings that occur
Lower(str) ==
  CASE str \in {"Linux", "LINUX"} -> "linux"
    [] str \in {"Git", "GIT"} -> "git"
    [] str \in {"Easy", "EASY"} -> "easy"
    [] str \in {"Hard", "HARD"} -> "hard"
    [] str \in {"FAANG", "Faang"} -> "faang"
    [] str \in {"Startup"} -> "startup"
    [] OTHER -> str

\* a catalog of three linux questions and one git question, written with
\* mixed case; the third entry has no company_tags key
TaggedCatalog ==
  << [id |-> "q1", topic |-> "Linux", difficulty |-> "easy",
      options |-> <<"a", "b">>, correct_answer |-> 1,
      company_tags |-> <<"FAANG", "startup">>],
     [id |-> "q2", topic |-> "linux", difficulty |-> "Hard",
      options |-> <<"a", "b">>, correct_answer |-> 2,
      company_tags |-> <<"faang">>],
     [id |-> "q3", topic |-> "git", difficulty |-> "easy",
      options |-> <<"a", "b">>, correct_answer |-> 1],
     [id |-> "q4", topic |-> "LINUX", difficulty |-> "Easy",
      options |-> <<"a", "b">>, correct_answer |-> 2,
      company_tags |-> <<>>] >>

\* an entry without the "id" key
EntryWithoutId ==
  [topic |-> "git", difficulty |-> "hard",
   options |-> <<"a", "b">>, correct_answer |-> 1]

MissingCatalog ==
  [exists |-> FALSE, json_ok |-> FALSE, has_questions |-> FALSE, entries |-> <<>>]
UnparsableCatalog ==
  [exists |-> TRUE, json_ok |-> FALSE, has_questions |-> FALSE, entries |-> <<>>]
\* valid JSON without a "questions" key
CatalogWithoutQuestions ==
  [exists |-> TRUE, json_ok |-> TRUE, has_questions |-> FALSE, entries |-> <<>>]

CatalogFiles ==
  {MissingCatalog, UnparsableCatalog, CatalogWithoutQuestions,
   CatalogFile(TaggedCatalog),
   CatalogFile(<<TaggedCatalog[1], TaggedCatalog[2], EntryWithoutId, TaggedCatalog[4]>>)}

\* py_random.sample(population, n): ValueError when n is negative or larger
\* than the population, otherwise n elements at distinct positions
Sample(population, n) ==
  IF n < 0 \/ n > Len(population)
    THEN {[raised |-> "ValueError", value |-> <<>>]}
    ELSE {[raised |-> "none", value |-> [j \in 1..n |-> population[pos[j]]]] :
            pos \in {f \in [1..n -> 1..Len(population)] :
                       \A j, k \in 1..n : j # k => f[j] # f[k]}}

\* InterviewQuestionBank.get_questions; None and the empty value of an
\* argument are both falsy, "" and <<>> stand for either
get_questions(qs, topic, difficulty, count, company_type, question_ids) ==
  LET ById(q) == q.id \in Range(question_ids)
      ByTopic(q) == Lower(q.topic) = Lower(topic)
      ByDifficulty(q) == Lower(q.difficulty) = Lower(difficulty)
      ByCompany(q) ==
        Lower(company_type) \in {Lower(tag) : tag \in Range(q.company_tags)}
      f1 == IF question_ids # <<>> THEN SelectSeq(qs, ById) ELSE qs
      f2 == IF topic # "" THEN SelectSeq(f1, ByTopic) ELSE f1
      f3 == IF difficulty # "" THEN SelectSeq(f2, ByDifficulty) ELSE f2
      filtered == IF company_type # "" THEN SelectSeq(f3, ByCompany) ELSE f3
  IN IF filtered = <<>>
       THEN {[raised |-> "none", value |-> <<>>]}
       ELSE Sample(filtered, Min(count, Len(filtered)))

\* the arguments a caller passes
QueryArgs ==
  [topic : {"", "LINUX", "git", "aws"},
   difficulty : {"", "EASY", "hard"},
   count : (-1)..MaxCount,
   company_type : {"", "Faang", "enterprise"},
   question_ids : {<<>>, <<"q1", "q2", "q4">>, <<"q9">>}]

\* a plausible slip: only the latest result of a question decides
FailedIdsLatest(rs) ==
  {rs[k].question_id : k \in {j \in 1..Len(rs) :
      /\ ~rs[j].correct
      /\ \A m \in (j + 1)..Len(rs) : rs[m].question_id # rs[j].question_id}}

\* set(failed): the ids of the results with correct = False
FailedIds(rs) ==
  {rs[k].question_id : k \in {j \in 1..Len(rs) : ~rs[j].correct}}

\* list(set(...)): the elements once each, in an order the code does not fix
Orderings(S) ==
  {f \in [1..Cardinality(S) -> S] : \A j, k \in DOMAIN f : j # k => f[j] # f[k]}

\* failed_ids[:n]: the first n elements, all but the last -n when n < 0
PyPrefix(seq, n) ==
  IF n >= 0 THEN SubSeq(seq, 1, Min(n, Len(seq)))
  ELSE SubSeq(seq, 1, Max(Len(seq) + n, 0))

\* InterviewQuestionBank.get_topics, as a set
get_topics(qs) == {qs[k].topic : k \in 1..Len(qs)}

\* interview's own company filter
ByCompanyType(qs, company_type) ==
  LET Tagged(q) ==
        Lower(company_type) \in {Lower(tag) : tag \in Range(q.company_tags)}
  IN IF company_type # "" THEN SelectSeq(qs, Tagged) ELSE qs

\* ----------------------------------------------------------------- export
NoExportFile == [exists |-> FALSE, complete |-> FALSE, data |-> <<>>]

ExportOutcomes == {"ok", "open_failed", "write_failed"}

\* export_data: session_summary and the results as json.dump writes them,
\* default=str turning each timestamp into text
ExportData(s, t, rs, start, clock) ==
  [session_summary |->
     [score |-> s, total |-> t, percentage |-> Percentage(s, t),
      duration_seconds |-> Rate(clock - start, UsecPerSec)],
   results |-> [k \in 1..Len(rs) |-> EncodeRecord(rs[k])]]

\* a plausible slip: the emptiness check left out
export_resultsUnchecked(f, s, t, rs, start, clock, outcome) ==
  IF outcome = "ok"
    THEN [file |-> [exists |-> TRUE, complete |-> TRUE,
                    data |-> ExportData(s, t, rs, start, clock)],
          report |-> "exported"]
    ELSE IF outcome = "write_failed"
      THEN [file |-> [exists |-> TRUE, complete |-> FALSE, data |-> <<>>],
            report |-> "error"]
      ELSE [file |-> f, report |-> "error"]

\* InterviewSession.export_results: the file afterwards and the message.
\* open(filename, 'w') truncates before the dump; every failure is caught.
export_results(f, s, t, rs, start, clock, outcome) ==
  IF rs = <<>> THEN [file |-> f, report |-> "no_results"]
  ELSE IF outcome = "ok"
    THEN [file |-> [exists |-> TRUE, complete |-> TRUE,
                    data |-> ExportData(s, t, rs, start, clock)],
          report |-> "exported"]
    ELSE IF outcome = "write_failed"
      THEN [file |-> [exists |-> TRUE, complete |-> FALSE, data |-> <<>>],
            report |-> "error"]
      ELSE [file |-> f, report |-> "error"]

\* ------------------------------------------------------------------ state
VARIABLES
  dir,                 \* ~/.devops-ip: "absent", "present" or "blocked"
  file,                \* progress.json
  runs,                \* process runs started so far
  now,                 \* wall clock
  pt,                  \* the process: "none", "up", "crashed"
  pt_results,          \* progress_tracker.results
  last_save,           \* how the last save_result of this process ended
  save_calls,          \* save_result calls made by this process
  pc,                  \* position of the running command
  cmd, questions, i, interview_mode,
  score, total, topic_performance, results, track_progress, start_time,
  shuffled, perm, new_correct_position, question_start_time,
  answer, event, ret, reported, summary,
  last_query,          \* the query answered last, "none" before any
  query_args,          \* the arguments of that query
  query_result,        \* what that query returned
  catalog,             \* the questions file
  bank,                \* question_bank.questions
  export,              \* whether --export names a file
  export_file,         \* that file
  export_report,       \* what export_results echoed, "none" before
  continue_answer,     \* the last answer to "Continue to next question?"
  count,               \* the command's --count option
  command_report,      \* the message a command echoed before returning early
  peer,                \* a second process on the same progress file
  peer_results,        \* that process's progress_tracker.results
  peer_calls,          \* save_result calls made by that process
  opened,              \* the processes between open(..., 'w') and the write
  last_writer          \* the process whose write reached the file last

vars == <<dir, file, runs, now, pt, pt_results, last_save, save_calls, pc,
          cmd, questions, i, interview_mode,
          score, total, topic_performance, results, track_progress, start_time,
          shuffled, perm, new_correct_position, question_start_time,
          answer, event, ret, reported, summary, last_query, query_args,
          query_result, catalog, bank, export, export_file, export_report,
          continue_answer, count, command_report, peer, peer_results,
          peer_calls, opened, last_writer>>

envVars == <<dir, file>>
trackerVars == <<pt_results, last_save, save_calls>>
commandVars == <<cmd, questions, i, interview_mode>>
sessionVars == <<score, total, topic_performance, results, track_progress, start_time>>
askVars == <<shuffled, perm, new_correct_position, question_start_time,
             answer, event, ret, reported>>
queryVars == <<last_query, query_args, query_result>>
bankVars == <<catalog, bank>>
exportVars == <<export, export_file, export_report, continue_answer>>
optionVars == <<count, command_report>>
peerVars == <<peer, peer_results, peer_calls, opened, last_writer>>

\* records a previous run may have left behind
OldRecord ==
  [question_id |-> "q1", topic |-> "linux", difficulty |-> "easy",
   correct |-> FALSE, timestamp |-> <<0>>, time_taken |-> 0]

\* another failed question of that run
OtherRecord ==
  [question_id |-> "q2", topic |-> "git", difficulty |-> "hard",
   correct |-> FALSE, timestamp |-> <<0>>, time_taken |-> 0]

\* a record whose timestamp is not ISO-8601
MalformedRecord == [OldRecord EXCEPT !.timestamp = <<>>]

MissingFile == [exists |-> FALSE, parsable |-> FALSE, data |-> <<>>]
UnparsableFile == [exists |-> TRUE, parsable |-> FALSE, data |-> <<>>]

InitFiles ==
  {MissingFile, UnparsableFile,
   [exists |-> TRUE, parsable |-> TRUE, data |-> <<OldRecord>>],
   [exists |-> TRUE, parsable |-> TRUE, data |-> <<OldRecord, OtherRecord>>],
   [exists |-> TRUE, parsable |-> TRUE, data |-> <<OldRecord, MalformedRecord>>]}

\* no process, no session: every in-memory variable at its rest value
NoProcess ==
  /\ pt_results = <<>> /\ last_save = "none" /\ save_calls = 0
  /\ pc = "nocmd"
  /\ cmd = "none" /\ questions = <<>> /\ i = 0 /\ interview_mode = FALSE
  /\ score = 0 /\ total = 0 /\ topic_performance = EmptyDict
  /\ results = <<>> /\ track_progress = TRUE /\ start_time = 0
  /\ shuffled = <<>> /\ perm = <<>> /\ new_correct_position = NonePosition
  /\ question_start_time = 0
  /\ answer = 0 /\ event = "none" /\ ret = "None" /\ reported = NoText
  /\ summary = <<>>
  /\ last_query = "none" /\ query_args = <<>> /\ query_result = <<>>
  /\ bank = <<>>
  /\ export = FALSE /\ export_file = NoExportFile /\ export_report = "none"
  /\ continue_answer = "none"
  /\ count = 0 /\ command_report = "none"
  /\ peer = "none" /\ peer_results = <<>> /\ peer_calls = 0
  /\ opened = {} /\ last_writer = "none"

Init ==
  /\ file \in InitFiles
  /\ dir \in (IF file.exists THEN {"present"} ELSE {"absent", "present", "blocked"})
  /\ runs = 0
  /\ now = 0
  /\ pt = "none"
  /\ catalog \in {CatalogFile(Catalog), MissingCatalog}
  /\ NoProcess

\* ---------------------------------------------------------------- actions
\* ProgressTracker.save_result: append, then rewrite the whole file; the
\* except clause swallows whatever the try block raises
save_result(result, outcome) ==
  /\ pt_results' = SaveResultMemory(pt_results, result, outcome)
  /\ file' = WriteFile(file, pt_results', outcome)
  /\ last_save' = outcome
  /\ save_calls' = save_calls + 1

\* import of core.progress_tracker: progress_tracker = ProgressTracker().
\* mkdir(exist_ok=True) creates the directory when its parent allows it and
\* raises otherwise; nothing catches that.
ProgressTrackerInit ==
  /\ pt = "none" /\ runs < MaxRuns
  /\ runs' = runs + 1
  /\ IF dir = "blocked"
       THEN pt' = "crashed" /\ UNCHANGED <<dir, pt_results>>
       ELSE pt' = "up" /\ dir' = "present" /\ pt_results' = LoadResults(file)
  /\ last_save' = "none" /\ save_calls' = 0
  /\ UNCHANGED <<file, now, pc, commandVars, sessionVars, askVars, summary, queryVars,
                 exportVars, optionVars, peerVars>>

\* the --count values a command is given
Counts == (-1)..MaxQuestions

\* session = InterviewSession() and the head of the for loop, which falls
\* through to show_summary when there is nothing to iterate over.  The
\* commands use the default track_progress = True; the constructor takes
\* either.
StartSession(c, qs, mode, track, ex, n) ==
  /\ cmd' = c /\ questions' = qs /\ interview_mode' = mode
  /\ track_progress' = track /\ export' = ex
  /\ count' = n /\ command_report' = "none"
  /\ i' = IF qs = <<>> THEN 0 ELSE 1
  /\ score' = 0 /\ total' = 0 /\ topic_performance' = EmptyDict
  /\ results' = <<>> /\ start_time' = now
  /\ pc' = IF qs = <<>> THEN "summary" ELSE "loop"

\* a command that ends before it builds a session: by an echoed message and
\* return ("done"), by an escaping exception ("fault") or by click's abort
EndCommand(c, n, report, how) ==
  /\ cmd' = c /\ count' = n /\ command_report' = report
  /\ pc' = how
  /\ UNCHANGED <<questions, i, interview_mode, sessionVars, export>>

\* commands/practice.py up to the first question
Practice ==
  /\ pt = "up" /\ pc = "nocmd"
  /\ \E n \in Counts, topic \in {"", "LINUX", "git", "aws"},
        difficulty \in {"", "hard"},
        mode \in BOOLEAN, track \in BOOLEAN, ex \in BOOLEAN,
        prompted \in get_topics(bank) \cup {"<abort>"} :
       /\ ex => track
       /\ IF bank = <<>>
            THEN EndCommand("practice", n, "no_questions_available", "done")
          ELSE IF topic = "" /\ prompted = "<abort>"
            THEN EndCommand("practice", n, "none", "aborted")
          ELSE \E got \in get_questions(bank, IF topic = "" THEN prompted ELSE topic,
                                        difficulty, n, "", <<>>) :
                 IF got.raised # "none"
                   THEN EndCommand("practice", n, "none", "fault")
                 ELSE IF got.value = <<>>
                   THEN EndCommand("practice", n, "no_questions_found", "done")
                 ELSE StartSession("practice", got.value, mode, track, ex, n)
  /\ UNCHANGED <<envVars, runs, now, pt, trackerVars, askVars, summary, queryVars, bankVars,
                 export_file, export_report, continue_answer, peerVars>>

\* commands/interview.py up to the first question
Interview ==
  /\ pt = "up" /\ pc = "nocmd"
  /\ \E n \in Counts, company_type \in {"", "faang"},
        track \in BOOLEAN, ex \in BOOLEAN, ready \in {"yes", "no", "abort"} :
       /\ ex => track
       /\ IF bank = <<>>
            THEN EndCommand("interview", n, "no_questions_available", "done")
          ELSE LET all_questions == ByCompanyType(bank, company_type)
                   adjusted == IF Len(all_questions) < n THEN Len(all_questions) ELSE n
               IN \E got \in Sample(all_questions, adjusted) :
                    IF got.raised # "none"
                      THEN EndCommand("interview", n, "none", "fault")
                    ELSE IF ready = "no"
                      THEN EndCommand("interview", n, "declined", "done")
                    ELSE IF ready = "abort"
                      THEN EndCommand("interview", n, "none", "aborted")
                    ELSE StartSession("interview", got.value, FALSE, track, ex, n)
  /\ UNCHANGED <<envVars, runs, now, pt, trackerVars, askVars, summary, queryVars, bankVars,
                 export_file, export_report, continue_answer, peerVars>>

\* commands/review.py up to the first question; get_questions is called
\* without count, so with its default of 1
ReviewMistakes ==
  /\ pt = "up" /\ pc = "nocmd"
  /\ \E n \in Counts, track \in BOOLEAN,
        failed_ids \in Orderings(FailedIds(pt_results)) :
       IF failed_ids = <<>>
         THEN EndCommand("review_mistakes", n, "no_incorrect_answers", "done")
       ELSE LET review_count == Min(n, Len(failed_ids)) IN
            \E got \in get_questions(bank, "", "", 1, "",
                                     PyPrefix(failed_ids, review_count)) :
              IF got.value = <<>>
                THEN EndCommand("review_mistakes", n, "could_not_find", "done")
              ELSE StartSession("review_mistakes", got.value, FALSE, track, FALSE, n)
  /\ UNCHANGED <<envVars, runs, now, pt, trackerVars, askVars, summary, queryVars, bankVars,
                 export_file, export_report, continue_answer, peerVars>>

\* ask_question up to the prompt: display, shuffle, record the new position
Present ==
  /\ pt = "up" /\ pc = "loop"
  /\ \E p \in ShufflePermutations(Len(questions[i].options)) :
       LET pairs == Shuffle(OptionsWithCorrectness(questions[i]), p) IN
         /\ shuffled' = pairs
         /\ perm' = p
         /\ new_correct_position' = NewCorrectPosition(pairs)
  /\ question_start_time' = now
  /\ answer' = 0 /\ event' = "none" /\ ret' = "None" /\ reported' = NoText
  /\ pc' = "collect"
  /\ UNCHANGED <<envVars, runs, now, pt, trackerVars, commandVars, sessionVars, summary, queryVars, bankVars, exportVars, optionVars, peerVars>>

\* click.prompt(type=int) rejects the text and asks again by itself
NonNumericInput ==
  /\ pt = "up" /\ pc = "collect"
  /\ event' = "non_numeric"
  /\ UNCHANGED <<envVars, runs, now, pt, trackerVars, pc, commandVars, sessionVars,
                 shuffled, perm, new_correct_position, question_start_time,
                 answer, ret, reported, summary, queryVars, bankVars, exportVars, optionVars, peerVars>>

\* a plausible slip: an out-of-range selection is judged as a wrong answer
OutOfRangeInputJudged ==
  /\ pt = "up" /\ pc = "collect"
  /\ \E a \in {0, Len(shuffled) + 1} : answer' = a
  /\ event' = "out_of_range"
  /\ total' = total + 1
  /\ topic_performance' = UpdateTopic(topic_performance, questions[i].topic, FALSE)
  /\ UNCHANGED <<envVars, runs, now, pt, trackerVars, pc, commandVars,
                 score, results, track_progress, start_time,
                 shuffled, perm, new_correct_position, question_start_time,
                 ret, reported, summary, queryVars, bankVars, exportVars, optionVars, peerVars>>

\* an integer outside 1..len(shuffled_options): message, next iteration
OutOfRangeInput ==
  /\ pt = "up" /\ pc = "collect"
  /\ \E a \in {0, Len(shuffled) + 1} : answer' = a
  /\ event' = "out_of_range"
  /\ UNCHANGED <<envVars, runs, now, pt, trackerVars, pc, commandVars, sessionVars,
                 shuffled, perm, new_correct_position, question_start_time,
                 ret, reported, summary, queryVars, bankVars, exportVars, optionVars, peerVars>>

\* a plausible slip: the aborted question is counted as a wrong answer
AbortInputCounted ==
  /\ pt = "up" /\ pc = "collect"
  /\ event' = "abort" /\ ret' = "False" /\ pc' = "returned"
  /\ total' = total + 1
  /\ UNCHANGED <<envVars, runs, now, pt, trackerVars, commandVars,
                 score, topic_performance, results, track_progress, start_time,
                 shuffled, perm, new_correct_position, question_start_time,
                 answer, reported, summary, queryVars, bankVars, exportVars, optionVars, peerVars>>

\* except click.Abort: return False
AbortInput ==
  /\ pt = "up" /\ pc = "collect"
  /\ event' = "abort" /\ ret' = "False" /\ pc' = "returned"
  /\ UNCHANGED <<envVars, runs, now, pt, trackerVars, commandVars, sessionVars,
                 shuffled, perm, new_correct_position, question_start_time,
                 answer, reported, summary, queryVars, bankVars, exportVars, optionVars, peerVars>>

\* a selection in 1..len(shuffled_options): judge and record
ValidInput ==
  /\ pt = "up" /\ pc = "collect"
  /\ \E a \in 1..Len(shuffled), outcome \in SaveOutcomes :
       LET q == questions[i]
           correct == IsCorrect(a, new_correct_position)
           lookup == PyIndex(q.options, q.correct_answer - 1)
           raises == ~correct /\ ~lookup.ok
           result == [question_id |-> q.id, topic |-> q.topic,
                      difficulty |-> q.difficulty, correct |-> correct,
                      timestamp |-> Timestamp(now),
                      time_taken |-> now - question_start_time]
           saved == track_progress /\ ~raises
       IN
         /\ answer' = a /\ event' = "valid"
         /\ total' = total + 1
         /\ topic_performance' = UpdateTopic(topic_performance, q.topic, correct)
         /\ score' = IF correct THEN score + 1 ELSE score
         /\ reported' = IF correct THEN NoText ELSE lookup.val
         /\ IF saved
              THEN /\ save_result(result, outcome)
                   /\ results' = Append(results, result)
              ELSE UNCHANGED <<pt_results, file, last_save, save_calls, results>>
         /\ IF raises
              THEN ret' = "None" /\ pc' = "fault"
              ELSE ret' = (IF correct THEN "True" ELSE "False") /\ pc' = "returned"
  /\ UNCHANGED <<dir, runs, now, pt, commandVars, track_progress, start_time,
                 shuffled, perm, new_correct_position, question_start_time, summary, queryVars, bankVars, exportVars, optionVars, peerVars>>

\* the command's loop after ask_question has returned: its value is dropped
\* and its locals are gone
NextIteration ==
  /\ pt = "up" /\ pc = "returned"
  /\ IF i < Len(questions)
       THEN IF cmd = "practice" /\ interview_mode
              THEN pc' = "confirm" /\ UNCHANGED i
              ELSE pc' = "loop" /\ i' = i + 1
       ELSE pc' = "summary" /\ UNCHANGED i
  /\ shuffled' = <<>> /\ perm' = <<>> /\ new_correct_position' = NonePosition
  /\ question_start_time' = 0
  /\ answer' = 0 /\ event' = "none" /\ ret' = "None" /\ reported' = NoText
  /\ UNCHANGED <<envVars, runs, now, pt, trackerVars, cmd, questions, interview_mode,
                 sessionVars, summary, queryVars, bankVars, exportVars, optionVars, peerVars>>

\* a plausible slip: the answer to the confirmation is not looked at
ConfirmIgnored ==
  /\ pt = "up" /\ pc = "confirm"
  /\ \E choice \in {"yes", "no", "abort"} :
       /\ continue_answer' = choice
       /\ IF choice = "abort" THEN pc' = "aborted" /\ UNCHANGED i
          ELSE pc' = "loop" /\ i' = i + 1
  /\ UNCHANGED <<envVars, runs, now, pt, trackerVars, cmd, questions, interview_mode,
                 sessionVars, askVars, summary, queryVars, bankVars,
                 export, export_file, export_report, optionVars, peerVars>>

\* click.confirm("Continue to next question?"): an abort here leaves the
\* command through click's own handler, past show_summary
Confirm ==
  /\ pt = "up" /\ pc = "confirm"
  /\ \E choice \in {"yes", "no", "abort"} :
       /\ continue_answer' = choice
       /\ IF choice = "yes" THEN pc' = "loop" /\ i' = i + 1
          ELSE IF choice = "no" THEN pc' = "summary" /\ UNCHANGED i
          ELSE pc' = "aborted" /\ UNCHANGED i
  /\ UNCHANGED <<envVars, runs, now, pt, trackerVars, cmd, questions, interview_mode,
                 sessionVars, askVars, summary, queryVars, bankVars,
                 export, export_file, export_report, optionVars, peerVars>>

\* session.show_summary()
ShowSummary ==
  /\ pt = "up" /\ pc = "summary"
  /\ summary' = Append(summary, show_summary(score, total, topic_performance,
                                              start_time, now))
  /\ pc' = IF export THEN "export" ELSE "done"
  /\ UNCHANGED <<envVars, runs, now, pt, trackerVars, commandVars, sessionVars, askVars,
                 queryVars, bankVars, exportVars, optionVars, peerVars>>

\* if export: session.export_results(export)
ExportResults ==
  /\ pt = "up" /\ pc = "export"
  /\ \E outcome \in ExportOutcomes :
       LET out == export_results(export_file, score, total, results,
                                 start_time, now, outcome)
       IN export_file' = out.file /\ export_report' = out.report
  /\ pc' = "done"
  /\ UNCHANGED <<envVars, runs, now, pt, trackerVars, commandVars, sessionVars, askVars,
                 summary, queryVars, bankVars, export, continue_answer,
                 optionVars, peerVars>>

\* the process ends: normally, by an uncaught exception, or by click's abort
Exit ==
  /\ \/ pt = "crashed"
     \/ pt = "up" /\ pc \in {"nocmd", "done", "fault", "aborted"}
  /\ pt' = "none"
  /\ pt_results' = <<>> /\ last_save' = "none" /\ save_calls' = 0
  /\ pc' = "nocmd"
  /\ cmd' = "none" /\ questions' = <<>> /\ i' = 0 /\ interview_mode' = FALSE
  /\ score' = 0 /\ total' = 0 /\ topic_performance' = EmptyDict
  /\ results' = <<>> /\ track_progress' = TRUE /\ start_time' = 0
  /\ shuffled' = <<>> /\ perm' = <<>> /\ new_correct_position' = NonePosition
  /\ question_start_time' = 0
  /\ answer' = 0 /\ event' = "none" /\ ret' = "None" /\ reported' = NoText
  /\ summary' = <<>>
  /\ last_query' = "none" /\ query_args' = <<>> /\ query_result' = <<>>
  /\ bank' = <<>>
  /\ export' = FALSE /\ export_report' = "none" /\ continue_answer' = "none"
  /\ count' = 0 /\ command_report' = "none"
  /\ UNCHANGED <<envVars, runs, now, catalog, export_file, peerVars>>

\* time passes
Tick ==
  /\ pc = "collect"
  /\ now < MaxClock
  /\ now' = now + 1
  /\ UNCHANGED <<envVars, runs, pt, trackerVars, pc, commandVars, sessionVars, askVars, summary, queryVars, bankVars, exportVars, optionVars, peerVars>>

\* import of core.question_bank: question_bank = InterviewQuestionBank()
InterviewQuestionBankInit ==
  /\ bank' = load_questions(catalog).questions
  /\ UNCHANGED catalog

\* one process: the imports happen once
Import == runs = 0 /\ ProgressTrackerInit /\ InterviewQuestionBankInit

Next ==
  \/ Import
  \/ Practice
  \/ Interview
  \/ ReviewMistakes
  \/ Present
  \/ NonNumericInput
  \/ OutOfRangeInput
  \/ AbortInput
  \/ ValidInput
  \/ NextIteration
  \/ Confirm
  \/ ShowSummary
  \/ ExportResults
  \/ Exit
  \/ Tick

Spec == Init /\ [][Next]_vars

\* --------------------------------------------- one ask_question call
\* the first question of a practice run, from the command line to the end
\* of its ask_question call
NextAsk ==
  \/ Import
  \/ Practice
  \/ Present
  \/ NonNumericInput
  \/ OutOfRangeInput
  \/ AbortInput
  \/ ValidInput
  \/ Tick

\* the user at the prompt: invalid inputs may come any number of times, but
\* a selection in range or an abort comes in the end
InputArrives == WF_vars(ValidInput \/ AbortInput)

SpecAsk == Init /\ [][NextAsk]_vars /\ InputArrives

\* ------------------------------------------------- the store on its own
\* QuestionResult values a caller can hand to save_result
StoreResults ==
  {[question_id |-> q.id, topic |-> q.topic, difficulty |-> q.difficulty,
    correct |-> c, timestamp |-> Timestamp(n), time_taken |-> 0] :
     q \in {Catalog[1], Catalog[2]}, c \in BOOLEAN, n \in 0..MaxClock}

\* progress_tracker.save_result(result) called on its own
SaveResult ==
  /\ pt = "up" /\ pc = "nocmd"
  /\ Len(pt_results) < MaxHistory
  /\ \E r \in StoreResults, outcome \in SaveOutcomes : save_result(r, outcome)
  /\ UNCHANGED <<dir, runs, now, pt, pc, commandVars, sessionVars, askVars, summary, queryVars, bankVars, exportVars, optionVars, peerVars>>

\* import of core.progress_tracker alone
StoreImport == ProgressTrackerInit /\ UNCHANGED bankVars

NextStore ==
  \/ StoreImport
  \/ SaveResult
  \/ Exit

\* successive processes over the same progress file
SpecStore == Init /\ [][NextStore]_vars


\* ------------------------------------------- two processes over one file
\* the results each process saves, told apart by their question
SelfResults ==
  {[question_id |-> Catalog[1].id, topic |-> Catalog[1].topic,
    difficulty |-> Catalog[1].difficulty, correct |-> c,
    timestamp |-> Timestamp(0), time_taken |-> 0] : c \in BOOLEAN}

PeerResults ==
  {[question_id |-> Catalog[2].id, topic |-> Catalog[2].topic,
    difficulty |-> Catalog[2].difficulty, correct |-> c,
    timestamp |-> Timestamp(0), time_taken |-> 0] : c \in BOOLEAN}

InitPeers == Init /\ dir = "present" /\ catalog = CatalogFile(Catalog)

\* the second process imports core.progress_tracker
PeerInit ==
  /\ peer = "none"
  /\ peer' = "up" /\ peer_results' = LoadResults(file) /\ peer_calls' = 0
  /\ UNCHANGED <<envVars, runs, now, pt, trackerVars, pc, commandVars, sessionVars,
                 askVars, summary, queryVars, bankVars, exportVars, optionVars,
                 opened, last_writer>>

\* save_result in this process up to the with statement: the append and
\* open(results_file, 'w')
SaveOpen ==
  /\ pt = "up" /\ pc = "nocmd" /\ "self" \notin opened
  /\ Len(pt_results) < MaxHistory
  /\ \E r \in SelfResults : pt_results' = Append(pt_results, r)
  /\ file' = Truncate(file)
  /\ opened' = opened \cup {"self"}
  /\ save_calls' = save_calls + 1
  /\ UNCHANGED <<dir, runs, now, pt, last_save, pc, commandVars, sessionVars, askVars,
                 summary, queryVars, bankVars, exportVars, optionVars,
                 peer, peer_results, peer_calls, last_writer>>

\* the end of the with statement: json.dump's text is flushed and the file closed
SaveClose ==
  /\ "self" \in opened
  /\ file' \in WriteAtStart(file, pt_results)
  /\ opened' = opened \ {"self"}
  /\ last_save' = "ok" /\ last_writer' = "self"
  /\ UNCHANGED <<dir, runs, now, pt, pt_results, save_calls, pc, commandVars,
                 sessionVars, askVars, summary, queryVars, bankVars, exportVars,
                 optionVars, peer, peer_results, peer_calls>>

\* the same two steps in the second process
PeerSaveOpen ==
  /\ peer = "up" /\ "peer" \notin opened
  /\ Len(peer_results) < MaxHistory
  /\ \E r \in PeerResults : peer_results' = Append(peer_results, r)
  /\ file' = Truncate(file)
  /\ opened' = opened \cup {"peer"}
  /\ peer_calls' = peer_calls + 1
  /\ UNCHANGED <<dir, runs, now, pt, trackerVars, pc, commandVars, sessionVars, askVars,
                 summary, queryVars, bankVars, exportVars, optionVars,
                 peer, last_writer>>

PeerSaveClose ==
  /\ "peer" \in opened
  /\ file' \in WriteAtStart(file, peer_results)
  /\ opened' = opened \ {"peer"}
  /\ last_writer' = "peer"
  /\ UNCHANGED <<dir, runs, now, pt, trackerVars, pc, commandVars, sessionVars, askVars,
                 summary, queryVars, bankVars, exportVars, optionVars,
                 peer, peer_results, peer_calls>>

NextPeers ==
  \/ StoreImport
  \/ PeerInit
  \/ SaveOpen
  \/ SaveClose
  \/ PeerSaveOpen
  \/ PeerSaveClose

\* two processes at once over the same progress file
SpecPeers == InitPeers /\ [][NextPeers]_vars


\* ------------------------------------------------------- store statistics
\* the loop that fills topic_stats: a dict, so topics stay in the order in
\* which they were first met
RECURSIVE TopicStatsFrom(_, _, _)
TopicStatsFrom(rs, k, acc) ==
  IF k > Len(rs) THEN acc
  ELSE LET r == rs[k]
           seen == \E j \in 1..Len(acc) : acc[j].topic = r.topic
           acc1 == IF seen THEN acc
                   ELSE Append(acc, [topic |-> r.topic, correct |-> 0, total |-> 0])
           acc2 == [j \in 1..Len(acc1) |->
                      IF acc1[j].topic = r.topic
                        THEN [topic |-> r.topic,
                              correct |-> acc1[j].correct + (IF r.correct THEN 1 ELSE 0),
                              total |-> acc1[j].total + 1]
                        ELSE acc1[j]]
       IN TopicStatsFrom(rs, k + 1, acc2)

\* a plausible slip: the minimum-attempts test left out
EligibleAny(st) == TRUE

\* if stats['total'] >= MIN_ATTEMPTS_FOR_WEAK_AREAS
Eligible(st) == st.total >= MIN_ATTEMPTS_FOR_WEAK_AREAS

\* weak_areas: (topic, success_rate) for every eligible topic, dict order
WeakAreasList(stats) ==
  LET kept == SelectSeq(stats, Eligible)
  IN [k \in 1..Len(kept) |->
        [topic |-> kept[k].topic, rate |-> Rate(kept[k].correct, kept[k].total)]]

\* a plausible slip: an unstable sort that puts a later equal element first
InsertByRateBeforeEqual(s, x) ==
  LET k == Cardinality({j \in 1..Len(s) : RateLess(s[j].rate, x.rate)})
  IN SubSeq(s, 1, k) \o <<x>> \o SubSeq(s, k + 1, Len(s))

\* one step of the stable sort: x goes behind every element not above it
InsertByRate(s, x) ==
  LET k == Cardinality({j \in 1..Len(s) : ~RateLess(x.rate, s[j].rate)})
  IN SubSeq(s, 1, k) \o <<x>> \o SubSeq(s, k + 1, Len(s))

\* sorted(weak_areas, key=lambda x: x[1]): ascending and stable
RECURSIVE SortedByRate(_)
SortedByRate(s) ==
  IF s = <<>> THEN <<>>
  ELSE InsertByRate(SortedByRate(SubSeq(s, 1, Len(s) - 1)), s[Len(s)])

\* ProgressTracker.get_weak_areas
get_weak_areas(rs) ==
  LET sorted == SortedByRate(WeakAreasList(TopicStatsFrom(rs, 1, <<>>)))
  IN SubSeq(sorted, 1, Min(MAX_WEAK_AREAS_SHOWN, Len(sorted)))

\* a plausible slip: the window taken from the front of the history
RecentResultsOldest(rs) == SubSeq(rs, 1, Min(RecentWindow, Len(rs)))

\* self.results[-10:]
RecentResults(rs) == SubSeq(rs, Max(1, Len(rs) - RecentWindow + 1), Len(rs))

\* sum(1 for r in results if r.correct)
CountCorrect(rs) == Cardinality({k \in 1..Len(rs) : rs[k].correct})

\* ProgressTracker.get_overall_stats
get_overall_stats(rs) ==
  IF rs = <<>>
    THEN [total_attempted |-> 0, total_correct |-> 0,
          success_rate |-> ZeroRate, recent_success_rate |-> ZeroRate]
    ELSE LET recent == RecentResults(rs) IN
         [total_attempted |-> Len(rs),
          total_correct |-> CountCorrect(rs),
          success_rate |-> Rate(CountCorrect(rs), Len(rs)),
          recent_success_rate |->
            IF recent = <<>> THEN ZeroRate
            ELSE Rate(CountCorrect(recent), Len(recent))]

\* a QuestionResult as the statistics read it
StatRecord(id, topic, c) ==
  [question_id |-> id, topic |-> topic, difficulty |-> "easy",
   correct |-> c, timestamp |-> Timestamp(0), time_taken |-> 0]

TopicNames ==
  <<"aws", "k8s", "linux", "git", "docker", "cicd", "network", "security">>

\* results per topic: attempts and how many of them were correct
TopicShapes ==
  {[total |-> 2, correct |-> 1], [total |-> 3, correct |-> 1],
   [total |-> 4, correct |-> 1], [total |-> 6, correct |-> 2]}

\* the results of one topic, the correct ones first
Block(topic, shape) ==
  [k \in 1..shape.total |-> StatRecord("q1", topic, k <= shape.correct)]

\* histories of n topics, met in the order of TopicNames or in reverse
RECURSIVE Blocks(_, _, _)
Blocks(shapes, order, k) ==
  IF k > Len(shapes) THEN <<>>
  ELSE Block(TopicNames[order[k]], shapes[order[k]]) \o Blocks(shapes, order, k + 1)

TopicHistories ==
  UNION {{Blocks(shapes, order, 1) :
            shapes \in [1..n -> TopicShapes],
            order \in {[k \in 1..n |-> k], [k \in 1..n |-> n + 1 - k]}} :
         n \in 0..MaxTopics}

FlagHistories ==
  UNION {{[k \in 1..n |-> StatRecord("q1", "aws", flags[k])] :
            flags \in [1..n -> BOOLEAN]} : n \in 0..MaxFlags}

ShortHistories ==
  UNION {[1..n -> {StatRecord(id, "aws", c) : id \in {"q1", "q2", "q3"}, c \in BOOLEAN}] :
         n \in 0..MaxShort}

StatHistories == TopicHistories \cup FlagHistories \cup ShortHistories

\* a process whose store has loaded one of these histories from the file
InitStats ==
  /\ pt_results \in StatHistories
  /\ file = [exists |-> TRUE, parsable |-> TRUE, data |-> DumpResults(pt_results)]
  /\ dir = "present"
  /\ runs = 1 /\ now = 0 /\ pt = "up"
  /\ last_save = "none" /\ save_calls = 0
  /\ pc = "nocmd"
  /\ cmd = "none" /\ questions = <<>> /\ i = 0 /\ interview_mode = FALSE
  /\ score = 0 /\ total = 0 /\ topic_performance = EmptyDict
  /\ results = <<>> /\ track_progress = TRUE /\ start_time = 0
  /\ shuffled = <<>> /\ perm = <<>> /\ new_correct_position = NonePosition
  /\ question_start_time = 0
  /\ answer = 0 /\ event = "none" /\ ret = "None" /\ reported = NoText
  /\ summary = <<>>
  /\ last_query = "none" /\ query_args = <<>> /\ query_result = <<>>
  /\ catalog = CatalogFile(Catalog)
  /\ bank = load_questions(catalog).questions
  /\ export = FALSE /\ export_file = NoExportFile /\ export_report = "none"
  /\ continue_answer = "none"
  /\ count = 0 /\ command_report = "none"
  /\ peer = "none" /\ peer_results = <<>> /\ peer_calls = 0
  /\ opened = {} /\ last_writer = "none"

nonQueryVars == <<envVars, runs, now, pt, trackerVars, pc, commandVars,
                  sessionVars, askVars, summary, bankVars, exportVars, optionVars, peerVars>>

\* progress_tracker.get_weak_areas()
GetWeakAreas ==
  /\ pt = "up" /\ pc = "nocmd"
  /\ last_query' = "weak_areas" /\ query_args' = <<>>
  /\ query_result' = get_weak_areas(pt_results)
  /\ UNCHANGED nonQueryVars

\* progress_tracker.get_failed_questions()
GetFailedQuestions ==
  /\ pt = "up" /\ pc = "nocmd"
  /\ last_query' = "failed_questions" /\ query_args' = <<>>
  /\ query_result' \in Orderings(FailedIds(pt_results))
  /\ UNCHANGED nonQueryVars

\* progress_tracker.get_overall_stats()
GetOverallStats ==
  /\ pt = "up" /\ pc = "nocmd"
  /\ last_query' = "overall_stats" /\ query_args' = <<>>
  /\ query_result' = get_overall_stats(pt_results)
  /\ UNCHANGED nonQueryVars

NextStats ==
  \/ GetWeakAreas
  \/ GetFailedQuestions
  \/ GetOverallStats

\* the statistics queries over a loaded history
SpecStats == InitStats /\ [][NextStats]_vars


\* ---------------------------------------------------------- question bank
\* before the import: no bank yet, the questions file in any condition
InitBank ==
  /\ catalog \in CatalogFiles
  /\ file = MissingFile /\ dir = "present"
  /\ runs = 0 /\ now = 0 /\ pt = "none"
  /\ NoProcess

\* question_bank = InterviewQuestionBank()
LoadQuestions ==
  /\ last_query = "none"
  /\ bank' = load_questions(catalog).questions
  /\ last_query' = "load_questions" /\ query_args' = <<>>
  /\ query_result' = load_questions(catalog).message
  /\ UNCHANGED <<envVars, runs, now, pt, trackerVars, pc, commandVars,
                 sessionVars, askVars, summary, catalog, exportVars, optionVars, peerVars>>

\* question_bank.get_questions(...)
GetQuestions ==
  /\ last_query # "none"
  /\ \E a \in QueryArgs :
       /\ query_args' = a
       /\ query_result' \in get_questions(bank, a.topic, a.difficulty, a.count,
                                          a.company_type, a.question_ids)
  /\ last_query' = "get_questions"
  /\ UNCHANGED nonQueryVars

NextBank ==
  \/ LoadQuestions
  \/ GetQuestions

\* the question bank on its own
SpecBank == InitBank /\ [][NextBank]_vars


\* ------------------------------------------------------- session summary
\* topic_performance of a session that answered t1 linux questions (c1 of
\* them correctly) and t2 git questions (c2 correctly)
TopicDict(c1, t1, c2, t2) ==
  [x \in {y \in {"linux", "git"} : (y = "linux" /\ t1 > 0) \/ (y = "git" /\ t2 > 0)} |->
     IF x = "linux" THEN [correct |-> c1, total |-> t1]
     ELSE [correct |-> c2, total |-> t2]]

\* the results a tracking session holds after its questions were judged
TrackedResults ==
  LET Recs == {[question_id |-> q.id, topic |-> q.topic, difficulty |-> q.difficulty,
                correct |-> c, timestamp |-> Timestamp(0), time_taken |-> 0] :
                 q \in {Catalog[1], Catalog[2]}, c \in BOOLEAN}
  IN UNION {[1..n -> Recs] : n \in 1..MaxTracked}

\* topic_performance as ask_question builds it, one judged answer at a time
RECURSIVE TopicPerformanceOf(_)
TopicPerformanceOf(rs) ==
  IF rs = <<>> THEN EmptyDict
  ELSE UpdateTopic(TopicPerformanceOf(SubSeq(rs, 1, Len(rs) - 1)),
                   rs[Len(rs)].topic, rs[Len(rs)].correct)

\* an InterviewSession(track_progress=False) after up to MaxTotal questions,
\* or a tracking one after up to MaxTracked questions, all of them saved
InitSummary ==
  /\ \/ /\ \E t \in 0..MaxTotal : \E t1 \in 0..t : \E c1 \in 0..t1 : \E c2 \in 0..(t - t1) :
            /\ total = t /\ score = c1 + c2
            /\ topic_performance = TopicDict(c1, t1, c2, t - t1)
        /\ results = <<>> /\ track_progress = FALSE
        /\ file = MissingFile
        /\ pt_results = <<>> /\ last_save = "none" /\ save_calls = 0
     \/ /\ results \in TrackedResults /\ track_progress = TRUE
        /\ total = Len(results)
        /\ score = Cardinality({k \in 1..Len(results) : results[k].correct})
        /\ topic_performance = TopicPerformanceOf(results)
        /\ pt_results = results /\ last_save = "ok" /\ save_calls = Len(results)
        /\ file = WriteFile(MissingFile, results, "ok")
  /\ start_time = 0
  /\ dir = "present"
  /\ runs = 1 /\ now = 0 /\ pt = "up"
  /\ pc = "summary"
  /\ cmd = "none" /\ questions = <<>> /\ i = 0 /\ interview_mode = FALSE
  /\ shuffled = <<>> /\ perm = <<>> /\ new_correct_position = NonePosition
  /\ question_start_time = 0
  /\ answer = 0 /\ event = "none" /\ ret = "None" /\ reported = NoText
  /\ summary = <<>>
  /\ last_query = "none" /\ query_args = <<>> /\ query_result = <<>>
  /\ catalog = CatalogFile(Catalog)
  /\ bank = load_questions(catalog).questions
  /\ export = FALSE /\ export_file = NoExportFile /\ export_report = "none"
  /\ continue_answer = "none"
  /\ count = 0 /\ command_report = "none"
  /\ peer = "none" /\ peer_results = <<>> /\ peer_calls = 0
  /\ opened = {} /\ last_writer = "none"

\* a plausible slip: the summary clears the counters it has shown
ShowSummaryAgainResetting ==
  /\ pt = "up" /\ pc = "done"
  /\ Len(summary) < MaxSummaries
  /\ summary' = Append(summary, show_summary(score, total, topic_performance,
                                              start_time, now))
  /\ score' = 0 /\ total' = 0 /\ topic_performance' = EmptyDict
  /\ UNCHANGED <<envVars, runs, now, pt, trackerVars, pc, commandVars,
                 results, track_progress, start_time, askVars, queryVars, bankVars, exportVars, optionVars, peerVars>>

\* session.show_summary() called once more on the same session
ShowSummaryAgain ==
  /\ pt = "up" /\ pc = "done"
  /\ Len(summary) < MaxSummaries
  /\ summary' = Append(summary, show_summary(score, total, topic_performance,
                                              start_time, now))
  /\ UNCHANGED <<envVars, runs, now, pt, trackerVars, pc, commandVars,
                 sessionVars, askVars, queryVars, bankVars, exportVars, optionVars, peerVars>>

\* a plausible slip: a failed export drops the results it could not write
ExportCallDropping ==
  /\ pt = "up" /\ pc = "done"
  /\ \E outcome \in ExportOutcomes :
       LET out == export_results(export_file, score, total, results,
                                 start_time, now, outcome)
       IN /\ export_file' = out.file /\ export_report' = out.report
          /\ results' = IF out.report = "error" THEN <<>> ELSE results
  /\ UNCHANGED <<envVars, runs, now, pt, trackerVars, pc, commandVars,
                 score, total, topic_performance, track_progress, start_time,
                 askVars, summary, queryVars, bankVars, export, continue_answer,
                 optionVars, peerVars>>

\* session.export_results(filename) called on the summarised session
ExportCall ==
  /\ pt = "up" /\ pc = "done"
  /\ \E outcome \in ExportOutcomes :
       LET out == export_results(export_file, score, total, results,
                                 start_time, now, outcome)
       IN export_file' = out.file /\ export_report' = out.report
  /\ UNCHANGED <<envVars, runs, now, pt, trackerVars, pc, commandVars, sessionVars,
                 askVars, summary, queryVars, bankVars, export, continue_answer,
                 optionVars, peerVars>>

\* time passes before or between the calls
Wait ==
  /\ pc \in {"summary", "done"}
  /\ now < MaxWait
  /\ now' = now + 1
  /\ UNCHANGED <<envVars, runs, pt, trackerVars, pc, commandVars, sessionVars,
                 askVars, summary, queryVars, bankVars, exportVars, optionVars, peerVars>>

NextSummary ==
  \/ ShowSummary
  \/ ShowSummaryAgain
  \/ ExportCall
  \/ Wait

\* show_summary on a session, any number of times
SpecSummary == InitSummary /\ [][NextSummary]_vars

\* ------------------------------------------------------------------ claims
\* the step in which ask_question leaves the prompt loop with a selection
JudgedStep == pc = "collect" /\ pc' # "collect" /\ event' = "valid"

\* the step in which ask_question leaves the prompt loop on an abort
AbortStep == pc = "collect" /\ pc' # "collect" /\ event' = "abort"

IsPrefix(s, t) == Len(s) <= Len(t) /\ \A k \in 1..Len(s) : s[k] = t[k]

Count(s, x) == Cardinality({k \in DOMAIN s : s[k] = x})

InRange(q) == q.correct_answer >= 1 /\ q.correct_answer <= Len(q.options)

OldCounter(tp, t, field) == IF t \in DOMAIN tp THEN tp[t][field] ELSE 0

\* C1: a valid selection adds exactly 1 to total, adds 1 to score iff the
\* selection equals the shuffled correct position, adds 1 to the topic's
\* total and (iff correct) to its correct counter, creating the entry from
\* {correct: 0, total: 0}, and leaves every other topic's counters alone.
C1_ValidSelectionCounts ==
  [][JudgedStep =>
       LET t == questions[i].topic
           hit == IF answer' = new_correct_position THEN 1 ELSE 0
       IN /\ total' = total + 1
          /\ score' = score + hit
          /\ DOMAIN topic_performance' = DOMAIN topic_performance \cup {t}
          /\ topic_performance'[t].total = OldCounter(topic_performance, t, "total") + 1
          /\ topic_performance'[t].correct = OldCounter(topic_performance, t, "correct") + hit
          /\ \A u \in DOMAIN topic_performance \ {t} :
               topic_performance'[u] = topic_performance[u]]_vars

\* two topics touched, one answer right and one wrong
C1_Witness ==
  /\ pc = "returned" /\ event = "valid"
  /\ total = 2 /\ score = 1
  /\ Cardinality(DOMAIN topic_performance) = 2

\* C2: for a question with 1 <= correct_answer <= len(options) and every
\* shuffle, the displayed options are a rearrangement of the original ones,
\* the recorded position is the one displayed position that holds the
\* option originally at correct_answer, and ask_question returns true
\* exactly when that position is selected.
C2_ShuffleTracksCorrect ==
  (pc \in {"collect", "returned"} /\ InRange(questions[i])) =>
    LET q == questions[i]
        shown == ShuffledOptions(shuffled)
    IN /\ Len(shown) = Len(q.options)
       /\ \A x \in Range(q.options) : Count(shown, x) = Count(q.options, x)
       /\ \A k \in 1..Len(shown) : shown[k] = q.options[perm[k]]
       /\ new_correct_position \in 1..Len(shown)
       /\ \A k \in 1..Len(shown) :
            (perm[k] = q.correct_answer) <=> (k = new_correct_position)
       /\ (pc = "returned" /\ event = "valid") =>
            ((ret = "True") <=> (perm[answer] = q.correct_answer))

\* three options moved by a shuffle that is not its own inverse, and the
\* correct option selected at its new place
C2_Witness ==
  /\ pc = "returned" /\ event = "valid" /\ ret = "True"
  /\ InRange(questions[i])
  /\ Len(shuffled) = 3
  /\ perm[perm[1]] # 1 /\ perm[1] # 1
  /\ new_correct_position # questions[i].correct_answer

\* C3: when an answer is judged incorrect, the text reported as the correct
\* answer is the option at position correct_answer of the original options.
C3_ReportsOriginalOption ==
  (pc = "returned" /\ event = "valid" /\ ret = "False") =>
    /\ InRange(questions[i])
    /\ reported = questions[i].options[questions[i].correct_answer]

\* C4: an abort while the answer is collected makes ask_question return
\* false and changes neither score, total, topic_performance, the session's
\* results, the store's in-memory history nor the file.
C4_AbortCountsNothing ==
  [][AbortStep =>
       /\ ret' = "False"
       /\ UNCHANGED <<score, total, topic_performance, results,
                      pt_results, file>>]_vars

\* an abort on the second question, after the first one was recorded
C4_Witness ==
  /\ pc = "returned" /\ event = "abort" /\ ret = "False"
  /\ i = 2 /\ total = 1 /\ Len(results) = 1 /\ Len(pt_results) >= 1

\* C5: after an abort during a question the run presents no further
\* question: the command goes straight to the summary.
C5_AbortEndsRun ==
  [][(pc = "returned" /\ event = "abort") => pc' = "summary"]_vars

\* C6: with progress tracking on, every judged question yields exactly one
\* QuestionResult carrying the question's id, topic and difficulty and the
\* returned correctness, appended to the store's history and to the
\* session's results; with tracking off nothing is submitted or recorded.
C6_OneResultPerJudgedQuestion ==
  [][JudgedStep =>
       IF track_progress
         THEN /\ Len(results') = Len(results) + 1
              /\ IsPrefix(results, results')
              /\ Len(pt_results') = Len(pt_results) + 1
              /\ IsPrefix(pt_results, pt_results')
              /\ pt_results'[Len(pt_results')] = results'[Len(results')]
              /\ LET r == results'[Len(results')] IN
                   /\ r.question_id = questions[i].id
                   /\ r.topic = questions[i].topic
                   /\ r.difficulty = questions[i].difficulty
                   /\ ret' \in {"True", "False"}
                   /\ r.correct = (ret' = "True")
         ELSE /\ UNCHANGED <<pt_results, file, save_calls>>
              /\ results' = <<>>]_vars

\* the step in which save_result is called and its write fails
FailedSaveStep == save_calls' = save_calls + 1 /\ last_save' # "ok"

\* C7: save_result appends to the in-memory history before it tries to
\* write; when the write fails nothing is raised, the append stays, and the
\* session goes on to its next questions.
C7_FailedSaveKeepsRecord ==
  [][FailedSaveStep =>
       /\ Len(pt_results') = Len(pt_results) + 1
       /\ IsPrefix(pt_results, pt_results')
       /\ pt_results'[Len(pt_results')] = results'[Len(results')]
       /\ pc' = "returned" /\ ret' \in {"True", "False"}]_vars

\* the second question is being asked although the first save failed; the
\* first record is in memory and not in the file
C7_Witness ==
  /\ pc = "collect" /\ i = 2
  /\ save_calls = 1 /\ last_save = "write_failed"
  /\ Len(results) = 1 /\ Len(pt_results) >= 1
  /\ pt_results[Len(pt_results)] = results[1]
  /\ Len(LoadResults(file)) < Len(pt_results)

\* C8: when the last save_result of a process succeeded, a fresh store
\* loading the same file gets the saving store's history, record by record.
C8_RoundTrip ==
  (pt = "up" /\ last_save = "ok") => LoadResults(file) = pt_results

\* a saved history holding whole-second and fractional timestamps
C8_Witness ==
  /\ pt = "up" /\ last_save = "ok" /\ Len(pt_results) >= 2
  /\ \E j, k \in 1..Len(pt_results) :
       pt_results[j].timestamp.usec = 0 /\ pt_results[k].timestamp.usec # 0

\* C9: the persisted history only grows: no load or save removes, alters or
\* reorders a record the file already holds.
C9_PersistedAppendOnly ==
  [][IsPrefix(LoadResults(file), LoadResults(file'))]_vars

\* the store is constructed over a file that is missing, empty, unparsable
\* or holds a malformed record
BadFileConstruction ==
  /\ pt = "none" /\ pt' # "none"
  /\ \/ ~file.exists
     \/ ~file.parsable
     \/ \E k \in 1..Len(file.data) : ~Fromisoformat(file.data[k].timestamp).ok

\* C10: constructing the store over such a file raises nothing and yields
\* an empty history.
C10_BadFileLoadsEmpty ==
  [][BadFileConstruction => (pt' = "up" /\ pt_results' = <<>>)]_vars

\* the results of a topic, and the correct ones among them, in a history
TopicTotal(rs, t) == Cardinality({k \in 1..Len(rs) : rs[k].topic = t})
TopicCorrect(rs, t) ==
  Cardinality({k \in 1..Len(rs) : rs[k].topic = t /\ rs[k].correct})
FirstSeen(rs, t) == CHOOSE k \in 1..Len(rs) :
  rs[k].topic = t /\ \A j \in 1..(k - 1) : rs[j].topic # t
TopicsOf(rs) == {rs[k].topic : k \in 1..Len(rs)}
EligibleTopics(rs) ==
  {t \in TopicsOf(rs) : TopicTotal(rs, t) >= MIN_ATTEMPTS_FOR_WEAK_AREAS}

\* C11: get_weak_areas never returns a topic with fewer than 3 results,
\* whatever that topic's success rate.
C11_WeakAreasNeedMinAttempts ==
  (last_query = "weak_areas") =>
    \A k \in 1..Len(query_result) :
      TopicTotal(pt_results, query_result[k].topic) >= MIN_ATTEMPTS_FOR_WEAK_AREAS

\* aws with 2 results (1 correct) and k8s with 4 results (1 correct): only
\* k8s is returned, at 1/4
C11_Witness ==
  /\ last_query = "weak_areas"
  /\ TopicsOf(pt_results) = {"aws", "k8s"}
  /\ TopicTotal(pt_results, "aws") = 2 /\ TopicCorrect(pt_results, "aws") = 1
  /\ TopicTotal(pt_results, "k8s") = 4 /\ TopicCorrect(pt_results, "k8s") = 1
  /\ query_result = <<[topic |-> "k8s", rate |-> [num |-> 1, den |-> 4]]>>

\* C12: get_weak_areas returns at most 5 pairs (topic, correct/total): the
\* eligible topics of lowest success rate, in non-decreasing order of rate,
\* a topic met earlier in the history ahead of one of equal rate.
C12_WeakAreasLowestFive ==
  (last_query = "weak_areas") =>
    LET w == query_result
        rs == pt_results
        shown == {w[k].topic : k \in 1..Len(w)}
        TrueRate(t) == Rate(TopicCorrect(rs, t), TopicTotal(rs, t))
        Before(t, u) == \/ RateLess(TrueRate(t), TrueRate(u))
                        \/ /\ RateEqual(TrueRate(t), TrueRate(u))
                           /\ FirstSeen(rs, t) < FirstSeen(rs, u)
    IN /\ Len(w) = Min(MAX_WEAK_AREAS_SHOWN, Cardinality(EligibleTopics(rs)))
       /\ shown \subseteq EligibleTopics(rs)
       /\ Cardinality(shown) = Len(w)
       /\ \A k \in 1..Len(w) : w[k].rate = TrueRate(w[k].topic)
       /\ \A j, k \in 1..Len(w) : j < k => Before(w[j].topic, w[k].topic)
       /\ \A t \in shown, u \in EligibleTopics(rs) \ shown : Before(t, u)

\* six eligible topics met in reverse name order, two neighbours of equal
\* rate among the five returned
C12_Witness ==
  /\ last_query = "weak_areas"
  /\ Cardinality(EligibleTopics(pt_results)) = 6
  /\ Len(query_result) = 5
  /\ pt_results[1].topic = TopicNames[6]
  /\ \E k \in 1..4 : RateEqual(query_result[k].rate, query_result[k + 1].rate)
  /\ \E k \in 1..4 : RateLess(query_result[k].rate, query_result[k + 1].rate)
  /\ \E t \in EligibleTopics(pt_results) :
       /\ \A k \in 1..5 : query_result[k].topic # t
       /\ RateEqual(query_result[5].rate,
                    Rate(TopicCorrect(pt_results, t), TopicTotal(pt_results, t)))

\* C13: get_failed_questions returns every question id that has at least
\* one incorrect result exactly once and no other id, later correct answers
\* notwithstanding.
C13_FailedQuestionsOnce ==
  (last_query = "failed_questions") =>
    \A id \in {pt_results[k].question_id : k \in 1..Len(pt_results)}
              \cup Range(query_result) :
      Count(query_result, id) =
        (IF \E k \in 1..Len(pt_results) :
              pt_results[k].question_id = id /\ ~pt_results[k].correct
           THEN 1 ELSE 0)

\* q1 failed twice, q2 failed and then answered correctly: both returned
C13_Witness ==
  /\ last_query = "failed_questions"
  /\ Len(pt_results) = 3
  /\ \E j, k, m \in 1..3 :
       /\ j < k
       /\ pt_results[j].question_id = "q2" /\ ~pt_results[j].correct
       /\ pt_results[k].question_id = "q2" /\ pt_results[k].correct
       /\ pt_results[m].question_id = "q1" /\ ~pt_results[m].correct
  /\ Range(query_result) = {"q1", "q2"} /\ Len(query_result) = 2

\* C14: get_overall_stats reports the length of the history, the number of
\* correct records and a recent rate over exactly the last min(10, length)
\* records; with at most 10 records the recent rate is the overall rate,
\* and with none all four values are 0.
C14_OverallStats ==
  (last_query = "overall_stats") =>
    LET rs == pt_results
        n == Len(rs)
        st == query_result
        window == {k \in 1..n : k > n - RecentWindow}
        hits == Cardinality({k \in window : rs[k].correct})
    IN /\ st.total_attempted = n
       /\ st.total_correct = Cardinality({k \in 1..n : rs[k].correct})
       /\ n > 0 => /\ st.success_rate.num = st.total_correct
                   /\ st.success_rate.den = n
                   /\ st.recent_success_rate.num = hits
                   /\ st.recent_success_rate.den = Min(RecentWindow, n)
       /\ n <= RecentWindow =>
            RateEqual(st.recent_success_rate, st.success_rate)
       /\ n = 0 => /\ st.success_rate.num = 0
                   /\ st.recent_success_rate.num = 0

\* eleven records whose oldest differs from the rest: the recent rate
\* leaves the oldest out
C14_Witness ==
  /\ last_query = "overall_stats"
  /\ Len(pt_results) = 11
  /\ pt_results[1].correct /\ \A k \in 2..11 : ~pt_results[k].correct
  /\ query_result.total_correct = 1
  /\ query_result.recent_success_rate = [num |-> 0, den |-> 10]

\* the positions of the bank's questions that pass every supplied filter,
\* topic, difficulty and company tag compared without regard to case
Matching(qs, a) ==
  {k \in 1..Len(qs) :
     /\ a.question_ids # <<>> => \E j \in 1..Len(a.question_ids) : a.question_ids[j] = qs[k].id
     /\ a.topic # "" => Lower(qs[k].topic) = Lower(a.topic)
     /\ a.difficulty # "" => Lower(qs[k].difficulty) = Lower(a.difficulty)
     /\ a.company_type # "" =>
          \E j \in 1..Len(qs[k].company_tags) :
            Lower(qs[k].company_tags[j]) = Lower(a.company_type)}

\* C15: when the supplied filters select k > 0 questions, get_questions
\* with count = n returns exactly min(n, k) questions, pairwise distinct,
\* each passing every supplied filter.
C15_SampleOfFiltered ==
  (last_query = "get_questions" /\ Matching(bank, query_args) # {}) =>
    LET k == Cardinality(Matching(bank, query_args))
        v == query_result.value
    IN /\ query_result.raised = "none"
       /\ Len(v) = Min(query_args.count, k)
       /\ \A j, m \in 1..Len(v) : j # m => v[j] # v[m]
       /\ \A j \in 1..Len(v) : \E m \in Matching(bank, query_args) : v[j] = bank[m]

\* a catalog that cannot be located or whose loading raised
CatalogFails(f) == ~f.exists \/ load_questions(f).message = "error"

\* C16: over a catalog that is missing or fails to parse the bank is empty
\* and get_questions returns an empty sequence without raising; it also
\* returns an empty sequence whenever the filters match no question.
C16_BadCatalogEmptyBank ==
  /\ (last_query # "none" /\ CatalogFails(catalog)) =>
       /\ bank = <<>>
       /\ last_query = "get_questions" =>
            query_result = [raised |-> "none", value |-> <<>>]
  /\ (last_query = "get_questions" /\ Matching(bank, query_args) = {}) =>
       query_result = [raised |-> "none", value |-> <<>>]

\* C17: show_summary reports score/total*100 (0 when total is 0) and rates
\* it excellent iff it is >= 90, good iff in [75, 90), fair iff in [60, 75),
\* needs-practice iff below 60; a session with total = 0 is needs-practice.
C17_TierByThresholds ==
  \A k \in 1..Len(summary) :
    LET o == summary[k]
        pct100 == IF o.total > 0 THEN o.score * 100 ELSE 0
        den == IF o.total > 0 THEN o.total ELSE 1
    IN /\ o.score = score /\ o.total = total
       /\ (o.assessment = "excellent") <=> (pct100 >= 90 * den)
       /\ (o.assessment = "good") <=> (pct100 >= 75 * den /\ pct100 < 90 * den)
       /\ (o.assessment = "fair") <=> (pct100 >= 60 * den /\ pct100 < 75 * den)
       /\ (o.assessment = "needs_practice") <=> (pct100 < 60 * den)
       /\ o.total = 0 => (o.percentage = 0 /\ o.assessment = "needs_practice")
       /\ 2 * (o.percentage * den - 10 * pct100) <= den
       /\ 2 * (10 * pct100 - o.percentage * den) <= den

\* summaries exactly on the three thresholds: 9/10, 3/4 and 3/5
C17_Witness ==
  /\ Len(summary) >= 1
  /\ \/ total = 10 /\ score = 9 /\ summary[1].assessment = "excellent"
     \/ total = 4 /\ score = 3 /\ summary[1].assessment = "good"
     \/ total = 5 /\ score = 3 /\ summary[1].assessment = "fair"
  /\ summary[1].percentage \in {900, 750, 600}

WithoutDuration(o) ==
  [score |-> o.score, total |-> o.total, percentage |-> o.percentage,
   topics |-> o.topics, assessment |-> o.assessment]

C19_ExportNothing ==
  [][(pc = "export" /\ (results = <<>> \/ total = 0)) =>
       /\ pc' = "done"
       /\ export_report' = "no_results"
       /\ export_file' = export_file]_vars

\* a practice run whose only question was aborted, exported
C19_Witness ==
  /\ pc = "done" /\ export /\ track_progress
  /\ total = 0 /\ results = <<>>
  /\ export_report = "no_results" /\ ~export_file.exists

\* C20: in an interview-mode practice run the continue confirmation is
\* asked only while a question remains; answering no ends the loop without
\* error, no further question is presented, and the summary, and the export
\* when requested, run over the session as it stood.
C20_DeclineEndsRun ==
  /\ [](pc = "confirm" =>
          (cmd = "practice" /\ interview_mode /\ i < Len(questions)))
  /\ [][(pc = "confirm" /\ continue_answer' = "no") =>
          /\ pc' = "summary"
          /\ UNCHANGED <<sessionVars, i, pt_results, file>>]_vars
  /\ [](continue_answer = "no" =>
          /\ pc \in {"summary", "export", "done"}
          /\ i < Len(questions)
          /\ pc \in {"export", "done"} =>
               /\ Len(summary) = 1
               /\ summary[1].score = score /\ summary[1].total = total
          /\ (pc = "done" /\ export) =>
               /\ export_report # "none"
               /\ export_report = "exported" =>
                    /\ export_file.data.session_summary.score = score
                    /\ export_file.data.session_summary.total = total
                    /\ Len(export_file.data.results) = Len(results))

\* the second of two questions declined after the first was judged, the
\* summary shown and the one result exported
C20_Witness ==
  /\ continue_answer = "no" /\ pc = "done" /\ export
  /\ Len(questions) = 2 /\ i = 1 /\ total = 1
  /\ Len(summary) = 1 /\ summary[1].total = 1
  /\ export_report = "exported" /\ Len(export_file.data.results) = 1

\* C21: every question the bank holds after loading has
\* 1 <= correct_answer <= len(options), so no session is handed a question
\* whose correct index is out of range.
C21_LoadedAnswersInRange ==
  /\ \A k \in 1..Len(bank) : InRange(bank[k])
  /\ \A k \in 1..Len(questions) : InRange(questions[k])

\* C22: no operation ends in an uncaught fault: constructing the store,
\* loading, saving, selecting questions, asking, summarising and exporting
\* all catch their failures.
C22_NoUncaughtFault ==
  pt # "crashed" /\ pc # "fault"

\* C28: practice, interview and review_mistakes build no session, ask no
\* question and show no summary over an empty selection; with an empty bank
\* or filters that select nothing they echo a message and return.
C28_NoSessionOverNothing ==
  /\ (pc \in {"loop", "collect", "returned", "confirm", "summary", "export"}
        \/ summary # <<>>) => questions # <<>>
  /\ (pc = "done" /\ questions = <<>>) => command_report # "none"

\* the start of review_mistakes over a history with failed questions
ReviewStep ==
  /\ pc = "nocmd" /\ cmd' = "review_mistakes"
  /\ FailedIds(pt_results) # {}

\* C29: for every --count, review_mistakes presents only questions whose
\* id is among the failed ids, and min(count, number of failed ids) of them
\* when the bank still holds them all.
C29_ReviewsFailedQuestions ==
  [][ReviewStep =>
       LET failed == FailedIds(pt_results)
           held == {bank[k].id : k \in 1..Len(bank)}
       IN /\ \A k \in 1..Len(questions') : questions'[k].id \in failed
          /\ Len(questions') <= Max(Min(count', Cardinality(failed)), 0)
          /\ failed \subseteq held =>
               Len(questions') = Max(Min(count', Cardinality(failed)), 0)]_vars

TypeOK ==
  /\ pt \in {"none", "up", "crashed"}
  /\ pc \in {"nocmd", "loop", "collect", "returned", "confirm", "summary",
             "export", "done", "fault", "aborted"}
  /\ score \in Nat /\ total \in Nat
  /\ ret \in {"None", "True", "False"}
  /\ count \in Counts \cup {0}
  /\ last_save \in SaveOutcomes \cup {"none"}
  /\ peer \in {"none", "up"} /\ opened \subseteq {"self", "peer"}
  /\ last_writer \in {"none", "self", "peer"}

\* the step of one save_result call
SaveStep == save_calls' = save_calls + 1

\* C27: a save_result whose write succeeds leaves the file equal to the whole
\* in-memory history, in order, whatever the file held before and however
\* the earlier saves of the run ended
C27_SuccessfulSaveWritesHistory ==
  [][(SaveStep /\ last_save' = "ok") =>
       /\ Len(pt_results') = Len(pt_results) + 1
       /\ SubSeq(pt_results', 1, Len(pt_results)) = pt_results
       /\ file'.exists /\ file'.parsable
       /\ file'.data = DumpResults(pt_results')
       /\ LoadResults(file') = pt_results']_vars

\* a second save of a run has succeeded and the file holds the run's history
C27_Witness ==
  /\ pt = "up" /\ save_calls >= 2 /\ last_save = "ok"
  /\ Len(pt_results) >= 2
  /\ LoadResults(file) = pt_results

\* a step of the prompt loop on input that is no selection in range
InvalidInputStep ==
  /\ pc = "collect"
  /\ event' \in {"non_numeric", "out_of_range"}

\* a step from the prompt loop that moves the session or the store
CountersMoveStep ==
  /\ pc = "collect"
  /\ <<score, total, topic_performance, results, pt_results, file>>' #
       <<score, total, topic_performance, results, pt_results, file>>

\* C24: while ask_question collects the answer, a non-numeric or an
\* out-of-range input keeps the call in the prompt loop and changes neither
\* the session's counters and results nor the progress store; the counters
\* move only on an input within 1..len(options)
C24_InvalidInputReprompts ==
  /\ [][InvalidInputStep =>
          /\ pc' = "collect"
          /\ UNCHANGED <<score, total, topic_performance, results>>
          /\ UNCHANGED <<pt_results, file, last_save, save_calls>>
          /\ UNCHANGED <<shuffled, new_correct_position, i>>]_vars
  /\ [][CountersMoveStep =>
          /\ event' = "valid"
          /\ answer' \in 1..Len(shuffled)
          /\ total' = total + 1]_vars

\* the second question of a session has just had an out-of-range input and
\* the first question's judgement still stands alone
C24_Witness ==
  /\ pc = "collect" /\ event = "out_of_range"
  /\ answer \notin 1..Len(shuffled)
  /\ i = 2 /\ total = 1 /\ Len(results) = 1 /\ Len(pt_results) >= 1

\* the sum of one field over the entries of topic_performance
RECURSIVE SumOver(_, _, _)
SumOver(d, topics, field) ==
  IF topics = {} THEN 0
  ELSE LET t == CHOOSE x \in topics : TRUE
       IN d[t][field] + SumOver(d, topics \ {t}, field)

\* C30: between the calls made on a session, 0 <= score <= total, every
\* topic entry has 0 <= correct <= total and total >= 1, the per-topic
\* totals add up to total and the per-topic correct counts to score, and a
\* tracking session holds one result per counted question, as many of them
\* correct as the score says
C30_SessionInvariant ==
  /\ 0 <= score /\ score <= total
  /\ \A t \in DOMAIN topic_performance :
        /\ 0 <= topic_performance[t].correct
        /\ topic_performance[t].correct <= topic_performance[t].total
        /\ topic_performance[t].total >= 1
  /\ SumOver(topic_performance, DOMAIN topic_performance, "total") = total
  /\ SumOver(topic_performance, DOMAIN topic_performance, "correct") = score
  /\ track_progress =>
        /\ Len(results) = total
        /\ Cardinality({k \in 1..Len(results) : results[k].correct}) = score

\* the step of an export_results call that echoed one of its messages
ExportStep ==
  /\ pc \in {"export", "done"}
  /\ UNCHANGED <<summary, now>>
  /\ export_report' # "none"

\* C26: export_results leaves score, total, topic_performance and results
\* as they were whether it writes the file, fails or has nothing to export,
\* and the summaries echoed around a failed export agree on score, total
\* and percentage with each other and with the session
C26_ExportKeepsSession ==
  /\ [][ExportStep => UNCHANGED <<score, total, topic_performance, results,
                                  track_progress, start_time>>]_vars
  /\ [](export_report = "error" =>
          \A k \in 1..Len(summary) :
            /\ summary[k].score = score
            /\ summary[k].total = total
            /\ summary[k].percentage = Rounded(Percentage(score, total), 10)
            /\ summary[k].percentage = summary[1].percentage)

\* a tracking session with results whose export failed and left a cut-short
\* file, summarised before and after
C26_Witness ==
  /\ pc = "done" /\ export_report = "error"
  /\ results # <<>> /\ total = Len(results) /\ score >= 1
  /\ export_file.exists /\ ~export_file.complete
  /\ Len(summary) >= 2
  /\ summary[2].score = summary[1].score

\* C23: once two processes that both loaded the history have both saved
\* and no write is under way, the file holds exactly the history of the
\* process whose write came last, without the records only the other one
\* saved, and no save has reported a failure
C23_LastWriterWins ==
  (/\ pt = "up" /\ peer = "up" /\ opened = {}
   /\ save_calls >= 1 /\ peer_calls >= 1) =>
     LET last == IF last_writer = "self" THEN pt_results ELSE peer_results
     IN /\ file.exists /\ file.parsable
        /\ file.data = DumpResults(last)
        /\ LoadResults(file) = last
        /\ last_save = "ok"

\* how an ask_question call may end: aborted, with False and nothing
\* counted, or judged, with the question counted and, when the session
\* tracks progress, its result recorded
AskReturned ==
  /\ pc = "returned"
  /\ \/ event = "abort" /\ ret = "False" /\ total = 0 /\ results = <<>>
     \/ /\ event = "valid" /\ total = 1
        /\ track_progress => Len(results) = 1

\* C25: an ask_question call that has reached its prompt returns, given
\* that a selection in range or an abort arrives in the end; it neither
\* stays at the prompt nor leaves without having judged and recorded a
\* valid selection
C25_AskReturns == (pc = "collect") ~> AskReturned

====
